---- MODULE Spec2Model ----
(***************************************************************************)
(* FinAPI: an in-memory banking ledger served over HTTP (express).         *)
(* The store is the module-level array `customers`; every route handler    *)
(* runs synchronously behind the middleware verifyIfExistsAccountCPF.      *)
(***************************************************************************)
EXTENDS Integers, Sequences, FiniteSets, TLC

VARIABLES customers, now, last, inflight

vars == <<customers, now, last, inflight>>

(* ------------------------------ bounds --------------------------------- *)
\* total number of statement operations kept in the whole store
MaxTx == 2
\* last instant of the clock
MaxTime == 2
\* clock instants per calendar day
TicksPerDay == 2

(* ------------------------------ inputs --------------------------------- *)
Cpfs == {"111", "222"}
Names == {"Ana", "Bob"}
\* the values uuidv4() returns; no handler reads an id or compares two, so one
\* value stands for them all
Uuids == {"u1"}
\* the requests that may be in flight at the same time
Requests == {"r1", "r2"}
Descriptions == {"salary"}
Amounts == {-1, 2}
\* the time value of an Invalid Date (NaN), before every instant of the clock
InvalidDate == -1
\* the query strings of GET /statement/date: a day index stands for its
\* YYYY-MM-DD text, InvalidDate for a text Date cannot parse
Days == 0 .. (MaxTime \div TicksPerDay)
DateStrings == Days \cup {InvalidDate}

(* ---------------------------- HTTP statuses ---------------------------- *)
Ok == 200
Created == 201
BadRequest == 400
NotFound == 404

(* --------------------------- pure functions ---------------------------- *)
\* statement.reduce((acc, operation) => ..., 0): a left fold
RECURSIVE reduce(_, _)
reduce(statement, acc) ==
    IF statement = << >> THEN acc
    ELSE reduce(Tail(statement),
                IF Head(statement).type = "credit"
                THEN acc + Head(statement).amount
                ELSE acc - Head(statement).amount)

\* a fold that subtracts credits and adds debits
getBalanceSwapped(statement) == 0 - reduce(statement, 0)

getBalance(statement) == reduce(statement, 0)

\* a check with its operands exchanged
insufficientFundsReversed(balance, amount) == amount < balance

\* `if (balance < amount)`
insufficientFunds(balance, amount) == balance < amount

\* new Date(date + " 00:00"): local midnight of the day, or Invalid Date
parseDate(date) == IF date >= 0 THEN date * TicksPerDay ELSE InvalidDate

\* a comparison of instants instead of calendar days
toDateStringExact(t) == t

\* Date.prototype.toDateString(): the calendar day, time of day dropped
\* ("Invalid Date" for an Invalid Date)
toDateString(t) == IF t = InvalidDate THEN InvalidDate ELSE t \div TicksPerDay

\* customers.find(customer => customer.cpf === cpf): the position (from 1) of
\* the first match, 0 for undefined
find(cpf) ==
    LET RECURSIVE scan(_)
        scan(i) == IF i > Len(customers) THEN 0
                   ELSE IF customers[i].cpf = cpf THEN i
                   ELSE scan(i + 1)
    IN scan(1)

\* an index that is always the last one
findIndexLast(cpf) == Len(customers)

\* customers.findIndex(c => c.cpf === customer.cpf): the position (from 1),
\* 0 for findIndex's -1
findIndex(cpf) == find(cpf)

\* a check that looks at the first customer only
customerAlreadyExistsFirstOnly(cpf) == customers # << >> /\ customers[1].cpf = cpf

\* customers.some((customer) => customer.cpf === cpf)
customerAlreadyExists(cpf) == \E i \in DOMAIN customers : customers[i].cpf = cpf

\* customers.splice(customerIndex, 1); splice(-1, 1), here position 0, removes
\* the last element
splice(s, i) ==
    IF s = << >> THEN s
    ELSE LET at == IF i = 0 THEN Len(s) ELSE i IN
         [j \in 1 .. (Len(s) - 1) |-> IF j < at THEN s[j] ELSE s[j + 1]]

\* statement.filter((statement) => statement.created_at.toDateString() === day)
RECURSIVE filter(_, _)
filter(statement, day) ==
    IF statement = << >> THEN << >>
    ELSE IF toDateString(Head(statement).created_at) = day
         THEN <<Head(statement)>> \o filter(Tail(statement), day)
         ELSE filter(Tail(statement), day)

\* a push that puts the operation first (unshift)
pushFront(i, statementOperation) ==
    IF i = 0 THEN customers
    ELSE [customers EXCEPT ![i].statement = <<statementOperation>> \o @]

\* customer.statement.push(statementOperation); the customer is held by
\* reference, so the store sees it, unless the object has left the store (0)
push(i, statementOperation) ==
    IF i = 0 THEN customers
    ELSE [customers EXCEPT ![i].statement = Append(@, statementOperation)]

\* the statement operations in the whole store
TotalTx ==
    LET RECURSIVE n(_)
        n(s) == IF s = << >> THEN 0 ELSE Len(Head(s).statement) + n(Tail(s))
    IN n(customers)

(* ------------------------- requests / responses ------------------------ *)
\* `last` is the request handled last and the response sent for it; params
\* holds the fields the request carries (headers, body, query); body is the
\* JSON sent back, tagged by what it is
Response(op, params, status, body) ==
    [op |-> op, params |-> params, status |-> status, body |-> body]

EmptyBody == [empty |-> TRUE]

Idle == [pc |-> "idle"]

\* verifyIfExistsAccountCPF answering 404: `return res.status(404).json(...)`
CustomerNotFound(op, params) ==
    /\ find(params.cpf) = 0
    /\ last' = Response(op, params, NotFound, [error |-> "Customer not found."])
    /\ UNCHANGED <<customers, now>>

(* --------------------------- route handlers ---------------------------- *)
\* each takes i, the position in the store of req.customer
\* POST /account: no middleware; params come from the body
createAccountHandler(params) ==
    IF customerAlreadyExists(params.cpf)
    THEN /\ last' = Response("createAccount", params, BadRequest,
                             [error |-> "Customer already exists!"])
         /\ UNCHANGED <<customers, now>>
    ELSE /\ \E id \in Uuids :
               customers' = Append(customers,
                  [cpf |-> params.cpf, name |-> params.name, id |-> id,
                   statement |-> << >>])
         /\ last' = Response("createAccount", params, Created, EmptyBody)
         /\ UNCHANGED now

\* GET /statement
getStatementHandler(i, params) ==
    /\ last' = Response("getStatement", params, Ok,
                        [statement |-> customers[i].statement])
    /\ UNCHANGED <<customers, now>>

\* GET /statement/date
getStatementByDateHandler(i, params) ==
    LET dateFormat == parseDate(params.date) IN
    /\ last' = Response("getStatementByDate", params, Ok,
                        [statement |-> filter(customers[i].statement,
                                              toDateString(dateFormat))])
    /\ UNCHANGED <<customers, now>>

\* POST /deposit
depositHandler(i, params) ==
    LET statementOperation ==
            [description |-> params.description, amount |-> params.amount,
             created_at |-> now, type |-> "credit"]
    IN
    /\ TotalTx < MaxTx
    /\ customers' = push(i, statementOperation)
    /\ last' = Response("deposit", params, Created, EmptyBody)
    /\ UNCHANGED now

\* a handler that records the debit before it checks the balance
withdrawHandlerPushFirst(i, balance, params) ==
    LET statementOperation ==
            [amount |-> params.amount, created_at |-> now, type |-> "debit"]
    IN
    /\ TotalTx < MaxTx
    /\ customers' = push(i, statementOperation)
    /\ last' = IF insufficientFunds(balance, params.amount)
               THEN Response("withdraw", params, BadRequest,
                             [error |-> "Insufficient funds!"])
               ELSE Response("withdraw", params, Created, EmptyBody)
    /\ UNCHANGED now

\* POST /withdraw; balance is getBalance(customer.statement)
withdrawHandler(i, balance, params) ==
    LET statementOperation ==
            [amount |-> params.amount, created_at |-> now, type |-> "debit"]
    IN
    IF insufficientFunds(balance, params.amount)
    THEN /\ last' = Response("withdraw", params, BadRequest,
                             [error |-> "Insufficient funds!"])
         /\ UNCHANGED <<customers, now>>
    ELSE /\ TotalTx < MaxTx
         /\ customers' = push(i, statementOperation)
         /\ last' = Response("withdraw", params, Created, EmptyBody)
         /\ UNCHANGED now

\* a handler that renames every customer
updateAccountHandlerAll(i, params) ==
    /\ customers' = [j \in DOMAIN customers |->
                        [customers[j] EXCEPT !.name = params.name]]
    /\ last' = Response("updateAccount", params, Created, EmptyBody)
    /\ UNCHANGED now

\* PUT /account
updateAccountHandler(i, params) ==
    /\ customers' = IF i = 0 THEN customers
                    ELSE [customers EXCEPT ![i].name = params.name]
    /\ last' = Response("updateAccount", params, Created, EmptyBody)
    /\ UNCHANGED now

\* GET /account
getAccountHandler(i, params) ==
    /\ last' = Response("getAccount", params, Ok, [customer |-> customers[i]])
    /\ UNCHANGED <<customers, now>>

\* DELETE /account; cpf is customer.cpf
deleteAccountHandler(cpf, params) ==
    LET customerIndex == findIndex(cpf) IN
    /\ customers' = splice(customers, customerIndex)
    /\ last' = Response("deleteAccount", params, Ok, [customers |-> customers'])
    /\ UNCHANGED now

\* GET /balance
getBalanceHandler(i, params) ==
    /\ last' = Response("getBalance", params, Ok,
                        [balance |-> getBalance(customers[i].statement)])
    /\ UNCHANGED <<customers, now>>

(* ------------------------------ state ---------------------------------- *)
Init ==
    /\ customers = << >>
    /\ now = 0
    /\ last = Response("none", [cpf |-> "none"], 0, EmptyBody)
    /\ inflight = [r \in Requests |-> Idle]

\* the clock read by new Date() advances between requests
Tick ==
    /\ now < MaxTime
    /\ now' = now + 1
    /\ UNCHANGED <<customers, last, inflight>>

(* ----------- one request, from the middleware to the response ---------- *)
\* POST /account
CreateAccount(cpf, name) ==
    createAccountHandler([cpf |-> cpf, name |-> name]) /\ UNCHANGED inflight

GetStatement(cpf) ==
    LET params == [cpf |-> cpf] IN
    /\ UNCHANGED inflight
    /\ \/ CustomerNotFound("getStatement", params)
       \/ find(cpf) # 0 /\ getStatementHandler(find(cpf), params)

GetStatementByDate(cpf, date) ==
    LET params == [cpf |-> cpf, date |-> date] IN
    /\ UNCHANGED inflight
    /\ \/ CustomerNotFound("getStatementByDate", params)
       \/ find(cpf) # 0 /\ getStatementByDateHandler(find(cpf), params)

Deposit(cpf, description, amount) ==
    LET params == [cpf |-> cpf, description |-> description, amount |-> amount] IN
    /\ UNCHANGED inflight
    /\ \/ CustomerNotFound("deposit", params)
       \/ find(cpf) # 0 /\ depositHandler(find(cpf), params)

Withdraw(cpf, amount) ==
    LET params == [cpf |-> cpf, amount |-> amount] IN
    /\ UNCHANGED inflight
    /\ \/ CustomerNotFound("withdraw", params)
       \/ /\ find(cpf) # 0
          /\ withdrawHandler(find(cpf), getBalance(customers[find(cpf)].statement),
                             params)

UpdateAccount(cpf, name) ==
    LET params == [cpf |-> cpf, name |-> name] IN
    /\ UNCHANGED inflight
    /\ \/ CustomerNotFound("updateAccount", params)
       \/ find(cpf) # 0 /\ updateAccountHandler(find(cpf), params)

GetAccount(cpf) ==
    LET params == [cpf |-> cpf] IN
    /\ UNCHANGED inflight
    /\ \/ CustomerNotFound("getAccount", params)
       \/ find(cpf) # 0 /\ getAccountHandler(find(cpf), params)

DeleteAccount(cpf) ==
    LET params == [cpf |-> cpf] IN
    /\ UNCHANGED inflight
    /\ \/ CustomerNotFound("deleteAccount", params)
       \/ find(cpf) # 0 /\ deleteAccountHandler(customers[find(cpf)].cpf, params)

GetBalance(cpf) ==
    LET params == [cpf |-> cpf] IN
    /\ UNCHANGED inflight
    /\ \/ CustomerNotFound("getBalance", params)
       \/ find(cpf) # 0 /\ getBalanceHandler(find(cpf), params)

\* a request is handled to completion before the next one starts
Next ==
    \/ Tick
    \/ \E cpf \in Cpfs, name \in Names : CreateAccount(cpf, name)
    \/ \E cpf \in Cpfs : GetStatement(cpf)
    \/ \E cpf \in Cpfs, date \in DateStrings : GetStatementByDate(cpf, date)
    \/ \E cpf \in Cpfs, description \in Descriptions, amount \in Amounts :
          Deposit(cpf, description, amount)
    \/ \E cpf \in Cpfs, amount \in Amounts : Withdraw(cpf, amount)
    \/ \E cpf \in Cpfs, name \in Names : UpdateAccount(cpf, name)
    \/ \E cpf \in Cpfs : GetAccount(cpf)
    \/ \E cpf \in Cpfs : DeleteAccount(cpf)
    \/ \E cpf \in Cpfs : GetBalance(cpf)

Spec == Init /\ [][Next]_vars

(* --------------- requests in flight, step by step ---------------------- *)
\* The requests the step-by-step specification takes in: those that write
\* the store, all for one account
Incoming ==
    LET cpf == "111" IN
    {[op |-> "createAccount", params |-> [cpf |-> cpf, name |-> n]] : n \in Names}
    \cup {[op |-> "updateAccount", params |-> [cpf |-> cpf, name |-> n]] : n \in Names}
    \cup {[op |-> "deposit",
           params |-> [cpf |-> cpf, description |-> d, amount |-> a]] :
              d \in Descriptions, a \in Amounts}
    \cup {[op |-> "withdraw", params |-> [cpf |-> cpf, amount |-> a]] : a \in Amounts}
    \cup {[op |-> "deleteAccount", params |-> [cpf |-> cpf]]}

\* the deposits and withdrawals in flight
Pushing ==
    {r \in Requests : inflight[r].pc # "idle" /\ inflight[r].op \in {"deposit", "withdraw"}}

\* no handler is on the call stack: JavaScript runs a synchronous call chain
\* to its end before the event loop starts another callback
StackFree ==
    \A r \in Requests :
        IF inflight[r].pc = "handler" THEN ~inflight[r].onStack ELSE TRUE

\* app.use(express.json()): the body is read off the socket and parsed in a
\* callback of the event loop, after which the request waits for its routing
Receive(r) ==
    /\ inflight[r] = Idle
    /\ StackFree
    /\ \E q \in Incoming :
          /\ q.op \in {"deposit", "withdraw"} => TotalTx + Cardinality(Pushing) < MaxTx
          /\ inflight' = [inflight EXCEPT ![r] =
                             [pc |-> "queued", op |-> q.op, params |-> q.params]]
    /\ UNCHANGED <<customers, now, last>>

\* a middleware that hands over through the event loop (setImmediate(next))
nextDeferred(r, customer) ==
    inflight' = [inflight EXCEPT ![r] =
                    [pc |-> "handler", op |-> inflight[r].op,
                     params |-> inflight[r].params, customer |-> customer,
                     onStack |-> FALSE]]

\* `req.customer = customer; return next();`: a synchronous call into the
\* route handler
next(r, customer) ==
    inflight' = [inflight EXCEPT ![r] =
                    [pc |-> "handler", op |-> inflight[r].op,
                     params |-> inflight[r].params, customer |-> customer,
                     onStack |-> TRUE]]

\* the middleware of every route but POST /account
VerifyIfExistsAccountCPF(r) ==
    /\ inflight[r].pc = "queued"
    /\ inflight[r].op # "createAccount"
    /\ StackFree
    /\ \/ /\ CustomerNotFound(inflight[r].op, inflight[r].params)
          /\ inflight' = [inflight EXCEPT ![r] = Idle]
       \/ /\ find(inflight[r].params.cpf) # 0
          /\ next(r, customers[find(inflight[r].params.cpf)])
          /\ UNCHANGED <<customers, now, last>>

\* the route handler, entered from the middleware with req.customer; the
\* object is found in the store by its cpf, 0 once it has left the store
RouteHandler(r) ==
    /\ inflight[r].pc = "handler"
    /\ IF inflight[r].onStack THEN TRUE ELSE StackFree
    /\ LET q == inflight[r]
           i == find(q.customer.cpf)
           customer == IF i # 0 THEN customers[i] ELSE q.customer
       IN
       CASE q.op = "deposit" -> depositHandler(i, q.params)
         [] q.op = "withdraw" ->
                withdrawHandler(i, getBalance(customer.statement), q.params)
         [] q.op = "updateAccount" -> updateAccountHandler(i, q.params)
         [] q.op = "deleteAccount" -> deleteAccountHandler(q.customer.cpf, q.params)
    /\ inflight' = [inflight EXCEPT ![r] = Idle]

\* POST /account, which has no middleware
PostAccount(r) ==
    /\ inflight[r].pc = "queued"
    /\ inflight[r].op = "createAccount"
    /\ StackFree
    /\ createAccountHandler(inflight[r].params)
    /\ inflight' = [inflight EXCEPT ![r] = Idle]

NextConc ==
    \/ \E r \in Requests : Receive(r)
    \/ \E r \in Requests : VerifyIfExistsAccountCPF(r)
    \/ \E r \in Requests : RouteHandler(r)
    \/ \E r \in Requests : PostAccount(r)

SpecConc == Init /\ [][NextConc]_vars

(* ======================= properties of the ledger ====================== *)
\* a step that handles a request (the clock stands still)
RequestStep == now' = now

\* whether store s holds an account with key cpf, and the accounts it holds
\* for that key
Has(s, cpf) == \E i \in DOMAIN s : s[i].cpf = cpf
AccountsOf(s, cpf) == {i \in DOMAIN s : s[i].cpf = cpf}
StatementOf(s, cpf) == s[CHOOSE i \in DOMAIN s : s[i].cpf = cpf].statement

\* the sum of the amounts of one kind in a statement, by position
RECURSIVE SumKind(_, _, _)
SumKind(statement, kind, n) ==
    IF n = 0 THEN 0
    ELSE SumKind(statement, kind, n - 1)
         + (IF statement[n].type = kind THEN statement[n].amount ELSE 0)
CreditsMinusDebits(statement) ==
    SumKind(statement, "credit", Len(statement))
    - SumKind(statement, "debit", Len(statement))

IsPrefix(s, t) == Len(s) <= Len(t) /\ \A i \in 1 .. Len(s) : s[i] = t[i]

LookupOps == {"getAccount", "updateAccount", "deleteAccount", "deposit",
              "withdraw", "getBalance", "getStatement", "getStatementByDate"}
ReadOps == {"getAccount", "getBalance", "getStatement", "getStatementByDate"}

C1_Response ==
    (last.op = "getBalance" /\ last.status = Ok) =>
        /\ Has(customers, last.params.cpf)
        /\ last.body = [balance |->
                CreditsMinusDebits(StatementOf(customers, last.params.cpf))]
        /\ (StatementOf(customers, last.params.cpf) = << >>
                => last.body.balance = 0)
C1_Step ==
    (RequestStep /\ last'.status = Created) =>
        LET k == last'.params.cpf IN
        /\ last'.op = "deposit" =>
              CreditsMinusDebits(StatementOf(customers', k))
                  = CreditsMinusDebits(StatementOf(customers, k)) + last'.params.amount
        /\ last'.op = "withdraw" =>
              CreditsMinusDebits(StatementOf(customers', k))
                  = CreditsMinusDebits(StatementOf(customers, k)) - last'.params.amount
        /\ last'.op = "createAccount" =>
              CreditsMinusDebits(StatementOf(customers', k)) = 0

\* C1: GetBalance answers the sum of the credit amounts minus the sum of the
\* debit amounts of the account's statement (0 for an empty one); a
\* successful Deposit of a raises that difference by a, a successful Withdraw
\* of a lowers it by a, and a new account starts at 0.
C1_BalanceIsCreditsMinusDebits == [](C1_Response) /\ [][C1_Step]_vars

C1_Witness ==
    /\ last.op = "getBalance" /\ last.status = Ok
    /\ LET st == StatementOf(customers, last.params.cpf) IN
       /\ \E i \in DOMAIN st : st[i].type = "credit"
       /\ \E i \in DOMAIN st : st[i].type = "debit"
       /\ last.body.balance # 0

C2_Step ==
    (RequestStep /\ last'.op = "withdraw" /\ Has(customers, last'.params.cpf)) =>
        LET k == last'.params.cpf
            before == CreditsMinusDebits(StatementOf(customers, k))
        IN
        /\ last'.params.amount > before =>
              /\ last'.status = BadRequest
              /\ last'.body = [error |-> "Insufficient funds!"]
              /\ customers' = customers
        /\ last'.status = Created =>
              CreditsMinusDebits(StatementOf(customers', k)) >= 0

\* C2: a Withdraw on an existing account whose amount exceeds the balance
\* before the call answers 400 "Insufficient funds!" and leaves the store as
\* it was; after an admitted Withdraw the balance is not negative.
C2_WithdrawNeverOverdraws == [][C2_Step]_vars

C2_Witness ==
    /\ last.op = "withdraw" /\ last.status = BadRequest
    /\ CreditsMinusDebits(StatementOf(customers, last.params.cpf)) > 0
    /\ last.params.amount > CreditsMinusDebits(StatementOf(customers, last.params.cpf))

C3_Unique ==
    \A i, j \in DOMAIN customers : customers[i].cpf = customers[j].cpf => i = j
C3_Step ==
    (RequestStep /\ last'.op = "createAccount" /\ Has(customers, last'.params.cpf)) =>
        /\ last'.status = BadRequest
        /\ last'.body = [error |-> "Customer already exists!"]
        /\ customers' = customers
        /\ Cardinality(AccountsOf(customers', last'.params.cpf)) = 1

\* C3: no two accounts of the store have the same cpf; a CreateAccount for a
\* cpf already in the store answers 400 and leaves the store as it was, with
\* exactly one account for that cpf.
C3_KeyIsUnique == [](C3_Unique) /\ [][C3_Step]_vars

C3_Witness ==
    /\ last.op = "createAccount" /\ last.status = BadRequest
    /\ Len(customers) = 2
    /\ customers[2].cpf = last.params.cpf

C4_Step ==
    RequestStep =>
        LET k == last'.params.cpf IN
        /\ (last'.op = "deleteAccount" /\ last'.status = Ok) => ~Has(customers', k)
        /\ \A c \in Cpfs :
              (~Has(customers, c) /\ Has(customers', c)) =>
                  /\ last'.op = "createAccount"
                  /\ last'.status = Created
                  /\ k = c
        /\ (last'.op \in LookupOps /\ ~Has(customers, k)) =>
              /\ last'.status = NotFound
              /\ last'.body = [error |-> "Customer not found."]

\* C4: a successful DeleteAccount for k leaves no account for k; while the
\* store has no account for k it stays so unless a CreateAccount for k
\* succeeds, and every operation that looks k up answers 404.
C4_DeletedKeyIsNotFound == [][C4_Step]_vars

C4_Witness ==
    /\ last.op = "deleteAccount" /\ last.status = Ok
    /\ ~Has(customers, last.params.cpf)
    /\ customers # << >>

DayOf(t) == CHOOSE d \in 0 .. MaxTime : d * TicksPerDay <= t /\ t < (d + 1) * TicksPerDay
OnDay(statement, day) == {i \in DOMAIN statement : DayOf(statement[i].created_at) = day}
\* the j-th smallest position of the set
Nth(positions, j) ==
    CHOOSE i \in positions : Cardinality({m \in positions : m <= i}) = j

\* C5: GetStatementByDate(k, day) answers the transactions of k created on
\* calendar day `day`, all of them and no others, in the order of the
\* statement.
C5_StatementOfTheDay ==
    (last.op = "getStatementByDate" /\ last.status = Ok /\ last.params.date \in Days) =>
        LET st == StatementOf(customers, last.params.cpf)
            on == OnDay(st, last.params.date)
            got == last.body.statement
        IN
        /\ Len(got) = Cardinality(on)
        /\ \A j \in 1 .. Len(got) : got[j] = st[Nth(on, j)]

C5_Witness ==
    /\ last.op = "getStatementByDate" /\ last.status = Ok
    /\ last.params.date \in Days
    /\ LET st == StatementOf(customers, last.params.cpf) IN
       /\ Len(last.body.statement) = 1
       /\ Len(st) = 2
       /\ st[1].created_at # st[2].created_at
       /\ \E i \in DOMAIN st :
             /\ last.body.statement[1] = st[i]
             /\ st[i].created_at # parseDate(last.params.date)

C6_Step ==
    (RequestStep /\ last'.status \in {BadRequest, NotFound}) => customers' = customers

\* C6: a request answered 400 or 404 leaves the store exactly as it was.
C6_FailureChangesNothing == [][C6_Step]_vars

C6_Witness ==
    /\ last.status = BadRequest /\ last.op = "withdraw"
    /\ Len(customers) = 2
    /\ StatementOf(customers, last.params.cpf) # << >>

C7_Step ==
    /\ customers' # customers =>
          \A c \in Cpfs :
              (Has(customers, c) /\ Has(customers', c)) =>
                  IsPrefix(StatementOf(customers, c), StatementOf(customers', c))
    /\ (RequestStep /\ last'.status = Created /\ last'.op = "deposit") =>
          StatementOf(customers', last'.params.cpf)
              = Append(StatementOf(customers, last'.params.cpf),
                       [description |-> last'.params.description,
                        amount |-> last'.params.amount,
                        created_at |-> now, type |-> "credit"])
    /\ (RequestStep /\ last'.status = Created /\ last'.op = "withdraw") =>
          StatementOf(customers', last'.params.cpf)
              = Append(StatementOf(customers, last'.params.cpf),
                       [amount |-> last'.params.amount,
                        created_at |-> now, type |-> "debit"])

\* C7: the statement of an account that stays in the store only grows at its
\* end; a successful Deposit or Withdraw appends exactly one transaction,
\* made of the request's amount (and description), its kind and the time.
C7_StatementIsAppendOnly == [][C7_Step]_vars

C7_Witness ==
    /\ last.op = "withdraw" /\ last.status = Created
    /\ Len(StatementOf(customers, last.params.cpf)) = 2

\* C8: every transaction in the store has a non-negative amount, whatever
\* amounts Deposit and Withdraw are given.
C8_AmountsNonNegative ==
    \A i \in DOMAIN customers :
        \A j \in DOMAIN customers[i].statement :
            customers[i].statement[j].amount >= 0

AtHandler == {r \in Requests : inflight[r].pc = "handler"}
C9_Inv ==
    /\ Cardinality(AtHandler) <= 1
    /\ \A r \in AtHandler :
          /\ Has(customers, inflight[r].params.cpf)
          /\ customers[find(inflight[r].params.cpf)] = inflight[r].customer
C9_Step ==
    \A r \in AtHandler :
        /\ inflight'[r] = Idle
        /\ \A o \in Requests \ {r} : inflight'[o] = inflight[o]
        /\ Has(customers, inflight[r].params.cpf)

\* C9: once the middleware has looked a request's account up, the next step
\* is that request's handler: no other request runs in between. So a handler
\* finds its account in the store as the middleware saw it, and no two
\* requests are between lookup and handler at once.
C9_RequestsAreAtomic == [](C9_Inv) /\ [][C9_Step]_vars

C9_Witness ==
    \E r, o \in Requests :
        /\ inflight[r].pc = "handler" /\ inflight[r].op = "withdraw"
        /\ inflight[r].customer.statement # << >>
        /\ inflight[o].pc = "queued" /\ inflight[o].op = "deleteAccount"

Others(s, cpf) == SelectSeq(s, LAMBDA c : c.cpf # cpf)
C10_Step ==
    RequestStep =>
        LET k == last'.params.cpf
            i == CHOOSE n \in DOMAIN customers : customers[n].cpf = k
        IN
        /\ customers' # customers => Others(customers', k) = Others(customers, k)
        /\ (last'.op \in {"deposit", "withdraw"} /\ last'.status = Created) =>
              /\ Len(customers') = Len(customers)
              /\ customers'[i] = [customers[i] EXCEPT !.statement = customers'[i].statement]
        /\ (last'.op = "updateAccount" /\ last'.status = Created) =>
              /\ Len(customers') = Len(customers)
              /\ customers'[i] = [customers[i] EXCEPT !.name = last'.params.name]
        /\ (last'.op = "deleteAccount" /\ last'.status = Ok) =>
              /\ Len(customers') = Len(customers) - 1
              /\ customers' = Others(customers, k)
              /\ last'.body = [customers |-> Others(customers, k)]
        /\ last'.op \in ReadOps => customers' = customers

====
